---- MODULE Spec2Model ----
(***************************************************************************)
(* Blind-evaluation pipeline of force_dynamics: the store (src/db.py), the *)
(* labeling, scoring and parsing functions (src/methodology.py) and the    *)
(* orchestrator run_pipeline (src/pipeline.py).                            *)
(*                                                                         *)
(* Texts are modelled as sequences of tokens (see Tokens); the tables of   *)
(* the store as sequences of rows whose index is the AUTOINCREMENT id (no  *)
(* statement of the program deletes a row, so ids are 1..Len).             *)
(***************************************************************************)
EXTENDS Integers, Sequences, FiniteSets, TLC

\* ------------------------------------------------------------------ state

VARIABLES
    sentences,       \* table sentences
    runs,            \* table runs
    translations,    \* table translations
    evaluations,     \* table evaluations
    config,          \* the configuration of the invocation in progress
    pc,              \* where run_pipeline stands
    outcome,         \* how the last invocation ended
    model_idx,       \* place in config["models"]
    lang_idx,        \* place in languages
    file_rows,       \* rows read from the seed file being loaded
    rows_read,       \* history: the rows read from seed files
    rows,            \* cur.fetchall() of the pass in progress
    row_idx,         \* place in rows
    run_id,          \* id of the Run in progress
    rng,             \* state of the Run's randomness source
    translation_gpt, \* reply to the translation request
    labels,          \* labels of prepare_blind_labels
    mapping,         \* provenance map of prepare_blind_labels
    evaluation,      \* value returned by blind_evaluate
    clock,           \* last reading of datetime.utcnow(), in ticks
    log,             \* history: the calls made on the gateway
    returned,        \* history: the calls of insert_sentence and their results
    prior,           \* rows of each table when run_pipeline was entered
    seeded,          \* history: the seed random.Random was given, by Run id
    ptext,           \* text handed to parse_json_response on its own
    presult,         \* what it returned
    lab,             \* two randomness sources driven side by side
    scored,          \* generate_tables: what parse_scores returned, row by row
    table            \* generate_tables: the rows of table3_scores

store == <<sentences, runs, translations, evaluations>>
cursors == <<model_idx, lang_idx, file_rows, rows, row_idx, run_id, rng>>
locals == <<translation_gpt, labels, mapping, evaluation>>
pure == <<ptext, presult, lab, scored, table>>
history == <<log, returned, prior, seeded>>
vars == <<store, config, pc, outcome, cursors, locals, clock, rows_read, history, pure>>

\* ------------------------------------------------------------------ bounds

\* Passes (one model over one language) of an invocation.
MaxPasses == 2
\* Rows read from the seed files of an invocation.
MaxRows == 2
\* Calls an invocation makes on the gateway.
MaxCalls == 4
\* Longest raw text handed to parse_json_response on its own.
MaxLen == 4
\* Calls made on one randomness source in the labeling specification.
MaxDraws == 2

\* ------------------------------------------------------------------ domains

\* Translations: those of the seed files are "t1" and "t2", the gateway
\* returns "t3" in the pipeline specification.
Texts == {"t1", "t2", "t3"}
GatewayTexts == {"t3"}
\* Language identifiers of the configuration (they name the seed files).
LangIds == {"finnish", "Finnish"}
\* Base seeds of the configuration; 42 is the default.
Seeds == {42, 43}
\* The value read under a key the configuration does not hold.
Missing == "<missing>"
\* Entries of config["models"] that hold both keys; the last names no known
\* provider.
ModelEntries ==
    { [provider |-> "openai", name |-> "gpt-4o"],
      [provider |-> "azure", name |-> "gpt-4o"] }
\* Entries without the key "name" and without the key "provider".
MalformedEntries ==
    { [provider |-> "openai", name |-> Missing],
      [provider |-> Missing, name |-> "gpt-4o"] }
\* The keys run_pipeline reads before it connects to the store, and those it
\* reads once load_seed_data has returned.
EarlyKeys == {"database", "data", "languages", "seed_dir"}
LateKeys == {"prompts", "translation_system", "evaluation_system", "models"}
\* Rows a seed file may hold (columns language, original_text,
\* translation_human, translation_google).
SeedRows ==
    { [language |-> "Finnish", original_text |-> "o1",
       translation_human |-> "t1", translation_google |-> "t1"],
      [language |-> "Finnish", original_text |-> "o1",
       translation_human |-> "t2", translation_google |-> "t1"],
      [language |-> "Finnish", original_text |-> "o2",
       translation_human |-> "t1", translation_google |-> "t2"],
      [language |-> "finnish", original_text |-> "o1",
       translation_human |-> "t1", translation_google |-> "t1"] }

SeqsUpTo(S, n) == UNION { [1..k -> S] : k \in 1..n }

\* ------------------------------------------------------------------ texts

\* Tokens of a gateway reply: the braces, "g" the members of a well-formed
\* evaluation record, "x" a word of prose, "F" the code fence, "J" the
\* word json, " " white space.
Tokens == {"{", "}", "g", "x", "F", "J", " "}

\* str.capitalize on the language identifiers.
Capitalize(lang) ==
    CASE lang = "finnish" -> "Finnish"
      [] lang = "Finnish" -> "Finnish"
      [] lang = "FINNISH" -> "Finnish"
      [] OTHER -> lang

RECURSIVE LStrip(_)
LStrip(s) == IF s # <<>> /\ Head(s) = " " THEN LStrip(Tail(s)) ELSE s

RECURSIVE RStrip(_)
RStrip(s) ==
    IF s # <<>> /\ s[Len(s)] = " " THEN RStrip(SubSeq(s, 1, Len(s) - 1)) ELSE s

\* str.strip
Strip(s) == RStrip(LStrip(s))

\* str.replace of fence+json by "": left to right, without overlap.
RECURSIVE ReplaceFenceJson(_)
ReplaceFenceJson(s) ==
    IF s = <<>> THEN <<>>
    ELSE IF Len(s) >= 2 /\ s[1] = "F" /\ s[2] = "J"
         THEN ReplaceFenceJson(SubSeq(s, 3, Len(s)))
         ELSE <<Head(s)>> \o ReplaceFenceJson(Tail(s))

\* str.replace of the fence by ""
ReplaceFence(s) == SelectSeq(s, LAMBDA c : c # "F")

\* str.find: index (from 0) of the first c, -1 when there is none.
Find(s, c) ==
    IF \E i \in 1..Len(s) : s[i] = c
    THEN (CHOOSE i \in 1..Len(s) : s[i] = c /\ \A k \in 1..(i - 1) : s[k] # c) - 1
    ELSE -1

\* str.rfind
RFind(s, c) ==
    IF \E i \in 1..Len(s) : s[i] = c
    THEN (CHOOSE i \in 1..Len(s) : s[i] = c /\ \A k \in (i + 1)..Len(s) : s[k] # c) - 1
    ELSE -1

\* s[start : stop] of Python, for 0 <= start.
Slice(s, start, stop) ==
    IF stop <= start THEN <<>> ELSE SubSeq(s, start + 1, IF stop > Len(s) THEN Len(s) ELSE stop)

\* A JSON number, counted in tenths: Num(9) is 0.9.
Num(n) == [tenths |-> n]

\* The record the members "g" stand for.
GoodRecord ==
    [translation_A_description |-> "d", translation_A_score |-> Num(9),
     translation_B_description |-> "d", translation_B_score |-> Num(8),
     translation_C_description |-> "d", translation_C_score |-> Num(7),
     comparison |-> "c"]

\* A well-formed record whose comparison quotes a code fence: in its JSON
\* text the fence stands inside a string, after the members "g".
\* Without the fence the string is that of GoodRecord.
FenceRecord == [GoodRecord EXCEPT !.comparison = "cF"]

\* The empty JSON object.
EmptyObject == [empty |-> TRUE]

\* json.loads: the value of a JSON document, or JSONDecodeError. White space
\* is allowed around every token of a document.
JsonLoads(s) ==
    LET t == SelectSeq(s, LAMBDA c : c # " ")
    IN  IF t = <<"{", "g", "}">> THEN [exc |-> "none", value |-> GoodRecord]
        ELSE IF t = <<"{", "g", "F", "}">> THEN [exc |-> "none", value |-> FenceRecord]
        ELSE IF t = <<"{", "}">> THEN [exc |-> "none", value |-> EmptyObject]
        ELSE [exc |-> "JSONDecodeError"]

\* json.dumps / json.loads of a value the program itself has built.
JsonDumps(v) == [json |-> v]
JsonValue(j) == j.json

\* ------------------------------------------------------------------ parsing

\* parse_json_response: the parsed value, the error sentinel, or the
\* JSONDecodeError the second json.loads raises outside the try block.
parse_json_response(text) ==
    LET cleaned == Strip(ReplaceFence(ReplaceFenceJson(Strip(text))))
        first == JsonLoads(cleaned)
        start == Find(cleaned, "{")
        end == RFind(cleaned, "}")
    IN  IF first.exc = "none" THEN first
        ELSE IF start # -1 /\ end # -1
             THEN JsonLoads(Slice(cleaned, start, end + 1))
             ELSE [exc |-> "none",
                   value |-> [error |-> "json_parse_failed", raw |-> text]]

\* ------------------------------------------------------------------ labeling

\* random.Random(n): the state of a source seeded with n. The generator is a
\* stand-in for the Mersenne Twister: a linear congruential generator of full
\* period on 0..96, seeded injectively on the seeds in use.
Random(n) == n % 97

\* One step of the generator.
RngStep(s) == (15 * s + 3) % 97

\* Random._randbelow(n) on state s: the state after the draw, and the draw.
RandBelow(s, n) == [rng |-> RngStep(s), value |-> RngStep(s) % n]

\* x with the elements at (1-based) places i and j exchanged.
Swap(x, i, j) == [x EXCEPT ![i] = x[j], ![j] = x[i]]

\* Random.shuffle of a list of three: for i in 2, 1: j = randbelow(i + 1);
\* x[i], x[j] = x[j], x[i] (places from 0).
Shuffle(s, x) ==
    LET d2 == RandBelow(s, 3)
        x2 == Swap(x, 3, d2.value + 1)
        d1 == RandBelow(d2.rng, 2)
        x1 == Swap(x2, 2, d1.value + 1)
    IN  [rng |-> d1.rng, list |-> x1]

\* prepare_blind_labels with the tag of label C read from entries[0].
MutLabelsRepeatedTag(rng_state, gpt, google, human) ==
    LET entries == << <<"GPT", gpt>>, <<"Google", google>>, <<"Human", human>> >>
        sh == Shuffle(rng_state, entries)
        e == sh.list
    IN  [labels |-> [A |-> e[1][2], B |-> e[2][2], C |-> e[3][2]],
         mapping |-> [A |-> e[1][1], B |-> e[2][1], C |-> e[1][1]],
         rng |-> sh.rng]

\* prepare_blind_labels with the labels read before the shuffle.
MutLabelsBeforeShuffle(rng_state, gpt, google, human) ==
    LET entries == << <<"GPT", gpt>>, <<"Google", google>>, <<"Human", human>> >>
        sh == Shuffle(rng_state, entries)
        e == sh.list
    IN  [labels |-> [A |-> gpt, B |-> google, C |-> human],
         mapping |-> [A |-> e[1][1], B |-> e[2][1], C |-> e[3][1]],
         rng |-> sh.rng]

\* prepare_blind_labels shuffling with a source seeded from the clock, not
\* with the source it is given.
MutLabelsFromClock(rng_state, gpt, google, human) ==
    LET entries == << <<"GPT", gpt>>, <<"Google", google>>, <<"Human", human>> >>
        sh == Shuffle(Random(clock), entries)
        e == sh.list
    IN  [labels |-> [A |-> e[1][2], B |-> e[2][2], C |-> e[3][2]],
         mapping |-> [A |-> e[1][1], B |-> e[2][1], C |-> e[3][1]],
         rng |-> rng_state]

\* prepare_blind_labels that leaves the entries unshuffled, and the source
\* alone, when the self translation equals the reference.
MutLabelsSkipEqualTexts(rng_state, gpt, google, human) ==
    LET entries == << <<"GPT", gpt>>, <<"Google", google>>, <<"Human", human>> >>
        sh == IF gpt = human THEN [rng |-> rng_state, list |-> entries]
                             ELSE Shuffle(rng_state, entries)
        e == sh.list
    IN  [labels |-> [A |-> e[1][2], B |-> e[2][2], C |-> e[3][2]],
         mapping |-> [A |-> e[1][1], B |-> e[2][1], C |-> e[3][1]],
         rng |-> sh.rng]

\* prepare_blind_labels: the labels, the provenance map and the state the
\* randomness source is left in.
prepare_blind_labels(rng_state, gpt, google, human) ==
    LET entries == << <<"GPT", gpt>>, <<"Google", google>>, <<"Human", human>> >>
        sh == Shuffle(rng_state, entries)
        e == sh.list
    IN  [labels |-> [A |-> e[1][2], B |-> e[2][2], C |-> e[3][2]],
         mapping |-> [A |-> e[1][1], B |-> e[2][1], C |-> e[3][1]],
         rng |-> sh.rng]

\* ------------------------------------------------------------------ store

\* An upsert in place of INSERT OR IGNORE: the stored texts are overwritten.
MutUpsertSentence(tbl, language, original, human, google) ==
    LET new == [language |-> language, original_text |-> original,
                translation_human |-> human, translation_google |-> google]
    IN  IF \E i \in 1..Len(tbl) :
               tbl[i].language = language /\ tbl[i].original_text = original
        THEN [i \in 1..Len(tbl) |->
                 IF tbl[i].language = language /\ tbl[i].original_text = original
                 THEN new ELSE tbl[i]]
        ELSE Append(tbl, new)

\* INSERT OR IGNORE INTO sentences under UNIQUE(language, original_text).
InsertOrIgnoreSentence(tbl, language, original, human, google) ==
    IF \E i \in 1..Len(tbl) :
           tbl[i].language = language /\ tbl[i].original_text = original
    THEN tbl
    ELSE Append(tbl, [language |-> language, original_text |-> original,
                      translation_human |-> human, translation_google |-> google])

\* SELECT id FROM sentences WHERE language = ? AND original_text = ?, fetchone.
SelectSentenceId(tbl, language, original) ==
    LET hits == { i \in 1..Len(tbl) :
                    tbl[i].language = language /\ tbl[i].original_text = original }
    IN  CHOOSE i \in hits : \A k \in hits : i <= k

\* insert_sentence as a plain INSERT that returns cur.lastrowid.
MutInsertSentencePlain(tbl, language, original, human, google) ==
    LET after == Append(tbl, [language |-> language, original_text |-> original,
                              translation_human |-> human,
                              translation_google |-> google])
    IN  [table |-> after, id |-> Len(after)]

\* insert_sentence: the table afterwards and the id returned.
insert_sentence(tbl, language, original, human, google) ==
    LET after == InsertOrIgnoreSentence(tbl, language, original, human, google)
    IN  [table |-> after, id |-> SelectSentenceId(after, language, original)]

\* insert_run as INSERT OR REPLACE on the latest id: the last Run row is
\* overwritten.
MutInsertRunReplace(tbl, provider, model, sd, cfg_hash, created_at) ==
    LET new == [created_at |-> created_at, provider |-> provider, model |-> model,
                seed |-> sd, config_hash |-> cfg_hash]
    IN  IF tbl = <<>> THEN [table |-> <<new>>, id |-> 1]
        ELSE [table |-> [tbl EXCEPT ![Len(tbl)] = new], id |-> Len(tbl)]

\* insert_run: the table afterwards and cur.lastrowid.
insert_run(tbl, provider, model, sd, cfg_hash, created_at) ==
    LET after == Append(tbl, [created_at |-> created_at, provider |-> provider,
                              model |-> model, seed |-> sd,
                              config_hash |-> cfg_hash])
    IN  [table |-> after, id |-> Len(after)]

\* insert_translation
insert_translation(tbl, rid, sentence_id, gpt) ==
    Append(tbl, [run_id |-> rid, sentence_id |-> sentence_id,
                 translation_gpt |-> gpt])

\* insert_evaluation
insert_evaluation(tbl, rid, sentence_id, evaluation_json, mapping_json) ==
    Append(tbl, [run_id |-> rid, sentence_id |-> sentence_id,
                 evaluation_json |-> evaluation_json,
                 mapping_json |-> mapping_json])

\* SELECT id, original_text, translation_human, translation_google
\* FROM sentences WHERE language = ? ORDER BY id
RECURSIVE SelectByLanguage(_, _, _)
SelectByLanguage(tbl, language, from) ==
    IF from > Len(tbl) THEN <<>>
    ELSE (IF tbl[from].language = language
          THEN << [id |-> from, original_text |-> tbl[from].original_text,
                   translation_human |-> tbl[from].translation_human,
                   translation_google |-> tbl[from].translation_google] >>
          ELSE <<>>) \o SelectByLanguage(tbl, language, from + 1)

\* config_hash: the fingerprint of the configuration, taken to be free of
\* collisions (the configuration itself stands for its SHA-256).
config_hash(cfg) == [sha256 |-> cfg]

\* ------------------------------------------------------------------ aggregation

\* Python's None.
None == [none |-> TRUE]

\* float(v) of a JSON number, in tenths.
Float(v) == v.tenths

\* dict.get
Get(d, k) == IF k \in DOMAIN d THEN d[k] ELSE None

\* The keys a stored provenance map may hold, in the order json.dumps writes
\* them and mapping.items() yields them ("D" is a key no label has).
KeyOrder == <<"A", "B", "C", "D">>

\* One turn of the loop of parse_scores over mapping.items().
RECURSIVE AssignScores(_, _, _, _)
AssignScores(scores, score_map, map_data, i) ==
    IF i > Len(KeyOrder) THEN scores
    ELSE LET label == KeyOrder[i]
             target == Get(map_data, label)
             next == IF label \in DOMAIN map_data /\ target \in DOMAIN scores
                     THEN [scores EXCEPT ![target] = Get(score_map, label)]
                     ELSE scores
         IN  AssignScores(next, score_map, map_data, i + 1)

\* parse_scores reading the scores by position: A for GPT, B for Google, C
\* for Human, whatever the provenance map says.
MutParseScoresByPosition(evaluation_json, mapping_json) ==
    LET eval_data == JsonValue(evaluation_json)
    IN  [GPT |-> Get(eval_data, "translation_A_score"),
         Google |-> Get(eval_data, "translation_B_score"),
         Human |-> Get(eval_data, "translation_C_score")]

\* parse_scores
parse_scores(evaluation_json, mapping_json) ==
    LET eval_data == JsonValue(evaluation_json)
        map_data == JsonValue(mapping_json)
        scores == [GPT |-> None, Google |-> None, Human |-> None]
        score_map == [A |-> Get(eval_data, "translation_A_score"),
                      B |-> Get(eval_data, "translation_B_score"),
                      C |-> Get(eval_data, "translation_C_score")]
    IN  AssignScores(scores, score_map, map_data, 1)

\* Place of a language in the BINARY collation of ORDER BY s.language.
LangRank(language) == IF language = "Finnish" THEN 1 ELSE 2

\* sum() of a list of scores.
RECURSIVE SumSeq(_)
SumSeq(q) == IF q = <<>> THEN 0 ELSE Head(q) + SumSeq(Tail(q))

\* sum(v) / len(v) if v else None. Scores are counted in tenths and a mean is
\* kept as the exact fraction num / den.
Mean(v) == IF v = <<>> THEN None ELSE [num |-> SumSeq(v), den |-> Len(v)]

\* bias = gpt - human when neither is None, else None.
Bias(gpt, human) ==
    IF gpt # None /\ human # None
    THEN [num |-> gpt.num * human.den - human.num * gpt.den,
          den |-> gpt.den * human.den]
    ELSE None

\* The rows of the query of generate_tables: evaluations joined to their run
\* and sentence, ORDER BY r.id, s.language, s.id (rows that tie are taken in
\* the order of their ids).
QueryRows(st) ==
    LET joined == { i \in 1..Len(st.evaluations) :
                      /\ st.evaluations[i].run_id \in 1..Len(st.runs)
                      /\ st.evaluations[i].sentence_id \in 1..Len(st.sentences) }
        Key(i) == << st.evaluations[i].run_id,
                     LangRank(st.sentences[st.evaluations[i].sentence_id].language),
                     st.evaluations[i].sentence_id, i >>
        Before(i, j) ==
            LET a == Key(i)
                b == Key(j)
            IN  \/ a[1] < b[1]
                \/ a[1] = b[1] /\ a[2] < b[2]
                \/ a[1] = b[1] /\ a[2] = b[2] /\ a[3] < b[3]
                \/ a[1] = b[1] /\ a[2] = b[2] /\ a[3] = b[3] /\ a[4] < b[4]
        Ordered == CHOOSE q \in [1..Cardinality(joined) -> joined] :
                       \A m, n \in 1..Cardinality(joined) : m < n => Before(q[m], q[n])
    IN  [k \in 1..Cardinality(joined) |->
            LET e == st.evaluations[Ordered[k]]
                r == st.runs[e.run_id]
            IN  [id |-> Ordered[k],
                 key |-> [run_id |-> e.run_id, provider |-> r.provider,
                          model |-> r.model,
                          language |-> st.sentences[e.sentence_id].language],
                 evaluation_json |-> e.evaluation_json,
                 mapping_json |-> e.mapping_json]]

\* The loop of main over the rows of the query: parse_scores on each.
ScoreRows(q) ==
    [k \in 1..Len(q) |->
        [id |-> q[k].id, key |-> q[k].key,
         scores |-> parse_scores(q[k].evaluation_json, q[k].mapping_json)]]

\* accum[key][cat] with a score that is None taken as 0.0.
MutAccumNoneAsZero(sc, key, cat) ==
    LET hits == SelectSeq(sc, LAMBDA x : x.key = key)
    IN  [k \in 1..Len(hits) |->
            IF hits[k].scores[cat] = None THEN 0 ELSE Float(hits[k].scores[cat])]

\* accum[key][cat]: the scores of the category that are not None, in the
\* order of the rows.
Accum(sc, key, cat) ==
    LET hits == SelectSeq(sc, LAMBDA x : x.key = key /\ x.scores[cat] # None)
    IN  [k \in 1..Len(hits) |-> Float(hits[k].scores[cat])]

\* The rows of table3_scores: one for each key of accum, and accum gets a key
\* when a score that is not None is appended under it.
TableRows(sc) ==
    { LET gpt == Mean(Accum(sc, key, "GPT"))
          google == Mean(Accum(sc, key, "Google"))
          human == Mean(Accum(sc, key, "Human"))
      IN  [run_id |-> key.run_id, provider |-> key.provider, model |-> key.model,
           language |-> key.language, gpt_self_score |-> gpt,
           google_score |-> google, human_score |-> human,
           bias_self_minus_human |-> Bias(gpt, human)] :
      key \in { sc[k].key : k \in { n \in 1..Len(sc) :
                                       \E cat \in DOMAIN sc[n].scores :
                                           sc[n].scores[cat] # None } } }

\* ------------------------------------------------------------------ gateway

\* _call_model: whether the provider has a backend (else ValueError).
KnownProvider(provider) == provider \in {"openai", "gemini"}

\* The user prompt of the translation request (pipeline.py).
TranslationPrompt(lang, original) ==
    [template |-> "translate", target |-> Capitalize(lang), original |-> original]

\* A scoring prompt that names the source of each translation.
MutPromptWithProvenance(original, a, b, c) ==
    [template |-> "evaluate", original |-> original,
     A |-> <<a, mapping.A>>, B |-> <<b, mapping.B>>, C |-> <<c, mapping.C>>]

\* The user prompt blind_evaluate builds.
EvaluationPrompt(original, a, b, c) ==
    [template |-> "evaluate", original |-> original, A |-> a, B |-> b, C |-> c]

\* The request _call_model hands to the backend.
Request(provider, model, system_prompt, user_prompt) ==
    [provider |-> provider, model |-> model,
     system_prompt |-> system_prompt, user_prompt |-> user_prompt]

\* Scoring replies the gateway returns in the pipeline specification: a bare
\* record, a fenced record, a record inside prose, prose without braces,
\* braces around prose, and an empty JSON object.
ScoringReplies ==
    { <<"{", "g", "}">>,
      <<"F", "J", "{", "g", "}", "F">>,
      <<"x", "{", "g", "}", "x">>,
      <<"x">>,
      <<"{", "x", "}">>,
      <<"{", "}">> }

\* ------------------------------------------------------------------ initial state

NoConfig == [seed |-> 0, languages |-> <<>>, models |-> <<>>, absent |-> "none"]
NoLabels == [A |-> "", B |-> "", C |-> ""]
NoValue == [exc |-> "unset"]
NoTable == [done |-> FALSE, rows |-> {}]
NoLab == [seed |-> 0, calls1 |-> 0, calls2 |-> 0, rng1 |-> 0, rng2 |-> 0,
          in1 |-> <<"", "", "">>, labels1 |-> NoLabels,
          map1 |-> NoLabels, map2 |-> NoLabels, same |-> TRUE, differ |-> FALSE]

\* The configurations an invocation may be given: those that hold every key
\* run_pipeline reads (absent is "none"), one for each key left out, and
\* those with a malformed model entry, first or after a well-formed one.
Configs ==
    [seed : Seeds,
     languages : SeqsUpTo(LangIds, MaxPasses),
     models : SeqsUpTo(ModelEntries, MaxPasses),
     absent : {"none"}]
    \cup
    [seed : {42},
     languages : {<<"Finnish">>},
     models : {<< [provider |-> "openai", name |-> "gpt-4o"] >>},
     absent : EarlyKeys \cup LateKeys]
    \cup
    [seed : {42},
     languages : {<<"Finnish">>},
     models : { <<e>> : e \in MalformedEntries } \cup
              { << [provider |-> "openai", name |-> "gpt-4o"], e >> :
                    e \in MalformedEntries },
     absent : {"none"}]

translation_system == "translation_system"
evaluation_system == "evaluation_system"

\* An empty store.
EmptyStore ==
    [sentences |-> <<>>, runs |-> <<>>, translations |-> <<>>, evaluations |-> <<>>,
     returned |-> {}, clock |-> 0, seeded |-> <<>>]

\* The store an earlier invocation leaves behind: seed 43, one model, the
\* language finnish with one seed row, a well-formed scoring reply.
EarlierStore ==
    LET cfg == [seed |-> 43, languages |-> <<"finnish">>,
                models |-> << [provider |-> "openai", name |-> "gpt-4o"] >>,
                absent |-> "none"]
        s == insert_sentence(<<>>, "Finnish", "o1", "t1", "t1")
        r == insert_run(<<>>, "openai", "gpt-4o", cfg.seed, config_hash(cfg), 1)
        l == prepare_blind_labels(Random(cfg.seed + r.id), "t3", "t1", "t1")
        e == parse_json_response(<<"{", "g", "}">>)
    IN  [sentences |-> s.table, runs |-> r.table,
         translations |-> insert_translation(<<>>, r.id, s.id, "t3"),
         evaluations |-> insert_evaluation(<<>>, r.id, s.id, JsonDumps(e.value),
                                           JsonDumps(l.mapping)),
         returned |-> { [row |-> [language |-> "Finnish", original_text |-> "o1",
                                  translation_human |-> "t1",
                                  translation_google |-> "t1"],
                         id |-> s.id, earlier |-> TRUE] },
         clock |-> 1, seeded |-> <<cfg.seed + r.id>>]

\* The state before run_pipeline is entered on the store st.
InitOn(st) ==
    /\ sentences = st.sentences /\ runs = st.runs
    /\ translations = st.translations /\ evaluations = st.evaluations
    /\ clock = st.clock
    /\ prior = [sentences |-> Len(st.sentences), runs |-> Len(st.runs),
                translations |-> Len(st.translations),
                evaluations |-> Len(st.evaluations)]
    /\ config = NoConfig
    /\ pc = "idle"
    /\ outcome = "none"
    /\ model_idx = 0 /\ lang_idx = 0 /\ file_rows = 0 /\ rows = <<>> /\ row_idx = 0
    /\ run_id = 0 /\ rng = 0
    /\ translation_gpt = "" /\ labels = NoLabels /\ mapping = NoLabels
    /\ evaluation = NoValue
    /\ rows_read = 0
    /\ log = <<>>
    /\ returned = st.returned
    /\ seeded = st.seeded

\* run_pipeline is entered on an empty store or on the store of an earlier
\* invocation.
Init ==
    /\ \E st \in {EmptyStore, EarlierStore} : InitOn(st)
    /\ ptext = <<>> /\ presult = NoValue /\ lab = NoLab
    /\ scored = <<>> /\ table = NoTable

\* The frame of run_pipeline is dropped: the invocation has ended with how.
Leave(how) ==
    /\ pc' = "idle"
    /\ outcome' = how
    /\ config' = config
    /\ model_idx' = 0 /\ lang_idx' = 0 /\ file_rows' = 0 /\ rows' = <<>> /\ row_idx' = 0
    /\ run_id' = 0 /\ rng' = 0
    /\ translation_gpt' = "" /\ labels' = NoLabels /\ mapping' = NoLabels
    /\ evaluation' = NoValue

\* ------------------------------------------------------------------ run_pipeline

\* run_pipeline is entered: the configuration is read, connect and init_db
\* (CREATE TABLE IF NOT EXISTS) leave the rows of the store alone.
StartPipeline ==
    /\ pc = "idle"
    /\ outcome = "none"
    /\ \E cfg \in Configs :
          /\ Len(cfg.models) * Len(cfg.languages) <= MaxPasses
          /\ cfg.absent \notin EarlyKeys
          /\ config' = cfg
    /\ pc' = "load"
    /\ lang_idx' = 1
    /\ file_rows' = 0
    /\ outcome' = "running"
    /\ UNCHANGED <<store, model_idx, rows, row_idx, run_id, rng, locals, clock, rows_read,
                   log, returned, prior, seeded, pure>>

\* scripts/run_pipeline.py: there is no file at the path of the
\* configuration; run_pipeline is not entered.
ConfigNotFound ==
    /\ pc = "idle"
    /\ outcome = "none"
    /\ Leave("SystemExit")
    /\ UNCHANGED <<store, clock, rows_read, log, returned, prior, seeded, pure>>

\* run_pipeline reads "database", "data", "languages" or "seed_dir" from a
\* configuration that does not hold it: KeyError, before connect.
EarlyKeyError ==
    /\ pc = "idle"
    /\ outcome = "none"
    /\ \E cfg \in Configs :
          /\ cfg.absent \in EarlyKeys
          /\ config' = cfg
    /\ pc' = "idle"
    /\ outcome' = "KeyError"
    /\ UNCHANGED <<store, cursors, locals, clock, rows_read, log, returned, prior, seeded, pure>>

\* load_seed_data has returned and the configuration does not hold the
\* prompts or "models": KeyError.
LateKeyError ==
    /\ pc = "load"
    /\ lang_idx > Len(config.languages)
    /\ config.absent \in LateKeys
    /\ Leave("KeyError")
    /\ UNCHANGED <<store, clock, rows_read, log, returned, prior, seeded, pure>>

\* The loop over config["models"] comes to an entry without "provider" or
\* without "name": KeyError, before insert_run.
ModelEntryKeyError ==
    /\ pc = "models"
    /\ model_idx <= Len(config.models)
    /\ Missing \in {config.models[model_idx].provider, config.models[model_idx].name}
    /\ Leave("KeyError")
    /\ UNCHANGED <<store, clock, rows_read, log, returned, prior, seeded, pure>>

\* load_seed_data: the seed file of a language does not exist.
SeedFileMissing ==
    /\ pc = "load"
    /\ lang_idx <= Len(config.languages)
    /\ file_rows = 0
    /\ Leave("FileNotFoundError")
    /\ UNCHANGED <<store, clock, rows_read, log, returned, prior, seeded, pure>>

\* The seed rows of a language read and inserted when its pass is about to
\* begin as well.
MutLoadSeedRowLazily ==
    /\ pc \in {"load", "languages"}
    /\ lang_idx <= Len(config.languages)
    /\ rows_read < MaxRows
    /\ rows_read' = rows_read + 1
    /\ \E row \in SeedRows :
          LET ins == insert_sentence(sentences, row.language, row.original_text,
                                     row.translation_human, row.translation_google)
          IN  /\ sentences' = ins.table
              /\ returned' = returned \cup
                                {[row |-> row, id |-> ins.id, earlier |-> FALSE]}
    /\ file_rows' = file_rows + 1
    /\ UNCHANGED <<runs, translations, evaluations, config, pc, outcome, model_idx,
                   lang_idx, rows, row_idx, run_id, rng, locals, clock, log, prior, seeded, pure>>

\* load_seed_data: one row of the seed file is read and inserted.
LoadSeedRow ==
    /\ pc = "load"
    /\ lang_idx <= Len(config.languages)
    /\ rows_read < MaxRows
    /\ rows_read' = rows_read + 1
    /\ \E row \in SeedRows :
          LET ins == insert_sentence(sentences, row.language, row.original_text,
                                     row.translation_human, row.translation_google)
          IN  /\ sentences' = ins.table
              /\ returned' = returned \cup
                                {[row |-> row, id |-> ins.id, earlier |-> FALSE]}
    /\ file_rows' = file_rows + 1
    /\ UNCHANGED <<runs, translations, evaluations, config, pc, outcome, model_idx,
                   lang_idx, rows, row_idx, run_id, rng, locals, clock, log, prior, seeded, pure>>

\* load_seed_data: the seed file is exhausted, the next language follows.
SeedFileEnd ==
    /\ pc = "load"
    /\ lang_idx <= Len(config.languages)
    /\ lang_idx' = lang_idx + 1
    /\ file_rows' = 0
    /\ UNCHANGED <<store, config, pc, outcome, model_idx, rows, row_idx, run_id,
                   rng, locals, clock, rows_read, log, returned, prior, seeded, pure>>

\* load_seed_data has returned: cfg_hash and the prompts are read, the loop
\* over config["models"] begins.
SeedLoaded ==
    /\ pc = "load"
    /\ lang_idx > Len(config.languages)
    /\ config.absent \notin LateKeys
    /\ pc' = "models"
    /\ model_idx' = 1
    /\ lang_idx' = 0
    /\ UNCHANGED <<store, config, outcome, file_rows, rows, row_idx, run_id, rng,
                   locals, clock, rows_read, log, returned, prior, seeded, pure>>

\* A model's processing begins: the clock is read, the Run row inserted and
\* the Run's randomness source created.
StartModel ==
    /\ pc = "models"
    /\ model_idx <= Len(config.models)
    /\ Missing \notin {config.models[model_idx].provider, config.models[model_idx].name}
    /\ clock' = clock + 1
    /\ LET m == config.models[model_idx]
           ins == insert_run(runs, m.provider, m.name, config.seed,
                             config_hash(config), clock')
       IN  /\ runs' = ins.table
           /\ run_id' = ins.id
           /\ rng' = Random(config.seed + ins.id)
           /\ seeded' = Append(seeded, config.seed + ins.id)
    /\ pc' = "languages"
    /\ lang_idx' = 1
    /\ UNCHANGED <<rows_read, sentences, translations, evaluations, config, outcome, model_idx,
                   file_rows, rows, row_idx, locals, log, returned, prior, pure>>

\* A pass that creates the randomness source anew for its language.
MutStartPassReseeds ==
    /\ pc = "languages"
    /\ lang_idx <= Len(config.languages)
    /\ rows' = SelectByLanguage(sentences, Capitalize(config.languages[lang_idx]), 1)
    /\ row_idx' = 1
    /\ rng' = Random(config.seed + run_id)
    /\ pc' = "rows"
    /\ UNCHANGED <<store, config, outcome, model_idx, lang_idx, file_rows, run_id,
                   locals, clock, rows_read, log, returned, prior, seeded, pure>>

\* A pass that selects by the configured identifier as it is written.
MutStartPassRawLanguage ==
    /\ pc = "languages"
    /\ lang_idx <= Len(config.languages)
    /\ rows' = SelectByLanguage(sentences, config.languages[lang_idx], 1)
    /\ row_idx' = 1
    /\ pc' = "rows"
    /\ UNCHANGED <<store, config, outcome, model_idx, lang_idx, file_rows, run_id,
                   rng, locals, clock, rows_read, log, returned, prior, seeded, pure>>

\* A pass begins: the sentences of the language are selected.
StartPass ==
    /\ pc = "languages"
    /\ lang_idx <= Len(config.languages)
    /\ rows' = SelectByLanguage(sentences, Capitalize(config.languages[lang_idx]), 1)
    /\ row_idx' = 1
    /\ pc' = "rows"
    /\ UNCHANGED <<store, config, outcome, model_idx, lang_idx, file_rows, run_id,
                   rng, locals, clock, rows_read, log, returned, prior, seeded, pure>>

\* The provider checked when the pass begins, whether it has rows or not.
MutUnknownProviderEmptyPass ==
    /\ pc = "rows"
    /\ ~KnownProvider(config.models[model_idx].provider)
    /\ Leave("ValueError")
    /\ UNCHANGED <<store, clock, rows_read, log, returned, prior, seeded, pure>>

\* get_translation with a provider _call_model does not know: ValueError.
UnknownProvider ==
    /\ pc = "rows"
    /\ row_idx <= Len(rows)
    /\ ~KnownProvider(config.models[model_idx].provider)
    /\ Leave("ValueError")
    /\ UNCHANGED <<store, clock, rows_read, log, returned, prior, seeded, pure>>

\* get_translation: the translation request goes to the gateway.
RequestTranslation ==
    /\ pc = "rows"
    /\ row_idx <= Len(rows)
    /\ Len(log) < MaxCalls
    /\ KnownProvider(config.models[model_idx].provider)
    /\ LET m == config.models[model_idx]
           row == rows[row_idx]
       IN  log' = Append(log,
                [kind |-> "translate", run_id |-> run_id, sentence_id |-> row.id,
                 status |-> "pending", labels |-> NoLabels,
                 mapping |-> NoLabels,
                 req |-> Request(m.provider, m.name, translation_system,
                                 TranslationPrompt(config.languages[lang_idx],
                                                   row.original_text))])
    /\ pc' = "translating"
    /\ UNCHANGED <<store, config, outcome, cursors, locals, clock, rows_read, returned, prior, seeded, pure>>

\* The Translation row written as soon as the translation has come, before
\* labeling and scoring.
MutTranslationReplyInserts ==
    /\ pc = "translating"
    /\ \E text \in GatewayTexts :
          /\ translation_gpt' = text
          /\ translations' = insert_translation(translations, run_id,
                                                rows[row_idx].id, text)
    /\ log' = [log EXCEPT ![Len(log)].status = "replied"]
    /\ pc' = "label"
    /\ UNCHANGED <<sentences, runs, evaluations, config, outcome, cursors, labels,
                   mapping, evaluation, clock, rows_read, returned, prior, seeded, pure>>

\* The gateway returns the translation.
TranslationReply ==
    /\ pc = "translating"
    /\ \E text \in GatewayTexts : translation_gpt' = text
    /\ log' = [log EXCEPT ![Len(log)].status = "replied"]
    /\ pc' = "label"
    /\ UNCHANGED <<store, config, outcome, cursors, labels, mapping, evaluation,
                   clock, rows_read, returned, prior, seeded, pure>>

\* A gateway failure captured as a sentinel evaluation, the way a parse
\* failure is.
MutGatewayFailureSentinel ==
    /\ pc \in {"translating", "scoring"}
    /\ log' = [log EXCEPT ![Len(log)].status = "failed"]
    /\ evaluation' = [exc |-> "none",
                      value |-> [error |-> "gateway_failed", raw |-> <<>>]]
    /\ pc' = "insert_translation"
    /\ UNCHANGED <<store, config, outcome, cursors, translation_gpt, labels, mapping,
                   clock, rows_read, returned, prior, seeded, pure>>

\* A gateway failure caught in the loop over the models: the failing model is
\* given up and the next one follows.
MutGatewayFailureSkipsModel ==
    /\ pc \in {"translating", "scoring"}
    /\ log' = [log EXCEPT ![Len(log)].status = "failed"]
    /\ model_idx' = model_idx + 1
    /\ pc' = "models"
    /\ UNCHANGED <<store, config, outcome, lang_idx, file_rows, rows, row_idx,
                   run_id, rng, locals, clock, rows_read, returned, prior, seeded, pure>>

\* The gateway fails (transport, authentication): the error leaves run_pipeline.
GatewayFailure ==
    /\ pc \in {"translating", "scoring"}
    /\ log' = [log EXCEPT ![Len(log)].status = "failed"]
    /\ Leave("GatewayError")
    /\ UNCHANGED <<store, clock, rows_read, returned, prior, seeded, pure>>

\* prepare_blind_labels on the Run's randomness source.
Label ==
    /\ pc = "label"
    /\ LET row == rows[row_idx]
           r == prepare_blind_labels(rng, translation_gpt, row.translation_google,
                                     row.translation_human)
       IN  /\ labels' = r.labels
           /\ mapping' = r.mapping
           /\ rng' = r.rng
    /\ pc' = "labeled"
    /\ UNCHANGED <<store, config, outcome, model_idx, lang_idx, file_rows, rows,
                   row_idx, run_id, translation_gpt, evaluation, clock, rows_read, log,
                   returned, prior, seeded, pure>>

\* blind_evaluate: the scoring request goes to the gateway.
RequestScoring ==
    /\ pc = "labeled"
    /\ Len(log) < MaxCalls
    /\ LET m == config.models[model_idx]
           row == rows[row_idx]
       IN  log' = Append(log,
                [kind |-> "evaluate", run_id |-> run_id, sentence_id |-> row.id,
                 status |-> "pending", labels |-> labels,
                 mapping |-> mapping,
                 req |-> Request(m.provider, m.name, evaluation_system,
                                 EvaluationPrompt(row.original_text, labels.A,
                                                  labels.B, labels.C))])
    /\ pc' = "scoring"
    /\ UNCHANGED <<store, config, outcome, cursors, locals, clock, rows_read, returned, prior, seeded, pure>>

\* blind_evaluate: the gateway returns the scoring response (the client
\* strips it) and parse_json_response returns a value.
ScoringReply ==
    /\ pc = "scoring"
    /\ \E raw \in ScoringReplies :
          LET parsed == parse_json_response(Strip(raw))
          IN  /\ parsed.exc = "none"
              /\ evaluation' = parsed
    /\ log' = [log EXCEPT ![Len(log)].status = "replied"]
    /\ pc' = "insert_translation"
    /\ UNCHANGED <<store, config, outcome, cursors, translation_gpt, labels, mapping,
                   clock, rows_read, returned, prior, seeded, pure>>

\* blind_evaluate: the gateway returns a scoring response on which
\* parse_json_response raises; the error leaves run_pipeline.
ScoringReplyRaises ==
    /\ pc = "scoring"
    /\ \E raw \in ScoringReplies : parse_json_response(Strip(raw)).exc # "none"
    /\ log' = [log EXCEPT ![Len(log)].status = "replied"]
    /\ Leave("JSONDecodeError")
    /\ UNCHANGED <<store, clock, rows_read, returned, prior, seeded, pure>>

\* insert_translation after which the loop goes on to the next sentence, the
\* Evaluation row being left for later.
MutInsertTranslationDefersEvaluation ==
    /\ pc = "insert_translation"
    /\ translations' = insert_translation(translations, run_id, rows[row_idx].id,
                                          translation_gpt)
    /\ row_idx' = row_idx + 1
    /\ pc' = "rows"
    /\ UNCHANGED <<sentences, runs, evaluations, config, outcome, model_idx,
                   lang_idx, file_rows, rows, run_id, rng, locals, clock, rows_read, log,
                   returned, prior, seeded, pure>>

\* insert_translation made only for a sentence whose scoring response was
\* parsed: under the error sentinel no Translation row is written.
MutInsertTranslationOnlyScored ==
    /\ pc = "insert_translation"
    /\ translations' = IF "error" \in DOMAIN evaluation.value
                       THEN translations
                       ELSE insert_translation(translations, run_id, rows[row_idx].id,
                                               translation_gpt)
    /\ pc' = "insert_evaluation"
    /\ UNCHANGED <<sentences, runs, evaluations, config, outcome, cursors, locals,
                   clock, rows_read, log, returned, prior, seeded, pure>>

\* insert_translation
InsertTranslation ==
    /\ pc = "insert_translation"
    /\ translations' = insert_translation(translations, run_id, rows[row_idx].id,
                                          translation_gpt)
    /\ pc' = "insert_evaluation"
    /\ UNCHANGED <<sentences, runs, evaluations, config, outcome, cursors, locals,
                   clock, rows_read, log, returned, prior, seeded, pure>>

\* The invocation ends between the two inserts (the process is killed, or
\* insert_evaluation raises): insert_translation has committed, insert_evaluation
\* has written nothing.
CrashBetweenInserts ==
    /\ pc = "insert_evaluation"
    /\ Leave("crashed")
    /\ UNCHANGED <<store, clock, rows_read, log, returned, prior, seeded, pure>>

\* insert_evaluation; the loop over rows goes on.
InsertEvaluation ==
    /\ pc = "insert_evaluation"
    /\ evaluations' = insert_evaluation(evaluations, run_id, rows[row_idx].id,
                                        JsonDumps(evaluation.value),
                                        JsonDumps(mapping))
    /\ row_idx' = row_idx + 1
    /\ pc' = "rows"
    /\ UNCHANGED <<sentences, runs, translations, config, outcome, model_idx,
                   lang_idx, file_rows, rows, run_id, rng, locals, clock, rows_read, log,
                   returned, prior, seeded, pure>>

\* The rows of the pass are exhausted: the next language follows.
EndPass ==
    /\ pc = "rows"
    /\ row_idx > Len(rows)
    /\ lang_idx' = lang_idx + 1
    /\ pc' = "languages"
    /\ UNCHANGED <<store, config, outcome, model_idx, file_rows, rows, row_idx,
                   run_id, rng, locals, clock, rows_read, log, returned, prior, seeded, pure>>

\* The languages are exhausted: the next model follows.
EndModel ==
    /\ pc = "languages"
    /\ lang_idx > Len(config.languages)
    /\ model_idx' = model_idx + 1
    /\ pc' = "models"
    /\ UNCHANGED <<store, config, outcome, lang_idx, file_rows, rows, row_idx,
                   run_id, rng, locals, clock, rows_read, log, returned, prior, seeded, pure>>

\* The models are exhausted: conn.close(), run_pipeline returns.
Finish ==
    /\ pc = "models"
    /\ model_idx > Len(config.models)
    /\ Leave("returned")
    /\ UNCHANGED <<store, clock, rows_read, log, returned, prior, seeded, pure>>

\* generate_tables.main is run on the store the invocation has left.
Aggregate ==
    /\ pc = "idle"
    /\ outcome \notin {"none", "running"}
    /\ ~table.done
    /\ LET sc == ScoreRows(QueryRows([sentences |-> sentences, runs |-> runs,
                                       evaluations |-> evaluations]))
       IN  /\ scored' = sc
           /\ table' = [done |-> TRUE, rows |-> TableRows(sc)]
    /\ UNCHANGED <<store, config, pc, outcome, cursors, locals, clock, rows_read,
                   history, ptext, presult, lab>>

Next ==
    \/ ConfigNotFound
    \/ EarlyKeyError
    \/ StartPipeline
    \/ LateKeyError
    \/ ModelEntryKeyError
    \/ SeedFileMissing
    \/ LoadSeedRow
    \/ SeedFileEnd
    \/ SeedLoaded
    \/ StartModel
    \/ StartPass
    \/ UnknownProvider
    \/ RequestTranslation
    \/ TranslationReply
    \/ GatewayFailure
    \/ Label
    \/ RequestScoring
    \/ ScoringReply
    \/ ScoringReplyRaises
    \/ InsertTranslation
    \/ CrashBetweenInserts
    \/ InsertEvaluation
    \/ EndPass
    \/ EndModel
    \/ Finish
    \/ Aggregate

Spec == Init /\ [][Next]_vars

\* ------------------------------------------------------------------ parse_json_response alone

\* Every text of at most MaxLen tokens.
RawTexts == UNION { [1..k -> Tokens] : k \in 0..MaxLen }

\* Well-formed evaluation records and the JSON text of each.
Records == {GoodRecord, FenceRecord}
RecordText(R) == IF R = FenceRecord THEN <<"{", "g", "F", "}">> ELSE <<"{", "g", "}">>

\* A JSON text inside code-fence markers, with or without the word json.
Fenced(t) == { <<"F", "J", " ">> \o t \o <<" ", "F">>, <<"F">> \o t \o <<"F">> }

\* Prose of at most two tokens: words, white space, braces.
Prose == UNION { [1..k -> {"x", " ", "{", "}"}] : k \in 0..2 }

\* A JSON text with prose before it, after it or both.
InProse(t) == { pre \o t \o post : pre \in Prose, post \in Prose } \ {t}

\* The wrapped texts of a record.
WrappedTexts(R) == Fenced(RecordText(R)) \cup InProse(RecordText(R))

InitParse ==
    /\ InitOn(EmptyStore)
    /\ ptext \in RawTexts \cup UNION { WrappedTexts(R) : R \in Records }
    /\ presult = NoValue
    /\ lab = NoLab
    /\ scored = <<>> /\ table = NoTable

\* parse_json_response(ptext) is called; an exception it raises is kept as
\* the result.
ParseCall ==
    /\ presult = NoValue
    /\ presult' = parse_json_response(ptext)
    /\ UNCHANGED <<prior, seeded, store, config, pc, outcome, cursors, locals, clock, rows_read,
                   log, returned, ptext, lab, scored, table>>

NextParse == ParseCall

SpecParse == InitParse /\ [][NextParse]_vars

\* ------------------------------------------------------------------ prepare_blind_labels alone

\* The states a randomness source may be created in.
LabelSeeds == 0..96

Triples == Texts \X Texts \X Texts

InitLabel ==
    /\ InitOn(EmptyStore)
    /\ ptext = <<>>
    /\ presult = NoValue
    /\ \E n \in LabelSeeds :
          lab = [NoLab EXCEPT !.seed = n, !.rng1 = Random(n), !.rng2 = Random(n)]
    /\ scored = <<>> /\ table = NoTable

\* prepare_blind_labels is called on the first source.
LabelFirst ==
    /\ lab.calls1 = lab.calls2
    /\ lab.calls1 < MaxDraws
    /\ \E t \in Triples :
          LET r == prepare_blind_labels(lab.rng1, t[1], t[2], t[3])
          IN  lab' = [lab EXCEPT !.in1 = t, !.labels1 = r.labels, !.map1 = r.mapping,
                                 !.rng1 = r.rng, !.calls1 = lab.calls1 + 1]
    /\ clock' = clock + 1
    /\ UNCHANGED <<prior, seeded, store, config, pc, outcome, cursors, locals, rows_read, log,
                   returned, ptext, presult, scored, table>>

\* prepare_blind_labels is called on the second source, later, with the same
\* texts or with others.
LabelSecond ==
    /\ lab.calls2 < lab.calls1
    /\ \E t \in Triples :
          LET r == prepare_blind_labels(lab.rng2, t[1], t[2], t[3])
          IN  lab' = [lab EXCEPT !.map2 = r.mapping, !.rng2 = r.rng,
                                 !.calls2 = lab.calls2 + 1,
                                 !.same = lab.same /\ t = lab.in1,
                                 !.differ = (t # lab.in1)]
    /\ clock' = clock + 1
    /\ UNCHANGED <<prior, seeded, store, config, pc, outcome, cursors, locals, rows_read, log,
                   returned, ptext, presult, scored, table>>

NextLabel == LabelFirst \/ LabelSecond

SpecLabel == InitLabel /\ [][NextLabel]_vars

\* ------------------------------------------------------------------ generate_tables alone

\* A well-formed record with scores 0.0, 0.0 and 0.5.
LowRecord ==
    [GoodRecord EXCEPT !.translation_A_score = Num(0), !.translation_B_score = Num(0),
                       !.translation_C_score = Num(5)]

\* An incomplete record: the score of label B is not there.
PartialRecord ==
    [k \in DOMAIN GoodRecord \ {"translation_B_score"} |-> GoodRecord[k]]

\* The evaluation records a store may hold: well-formed ones, an incomplete
\* one and the sentinel.
StoredRecords ==
    {GoodRecord, LowRecord, PartialRecord,
     [error |-> "json_parse_failed", raw |-> <<"x">>]}

\* The provenance maps a store may hold: bijections, and maps a defect or a
\* hand has damaged (a category twice, an unknown tag, a label missing, a key
\* that is no label).
StoredMaps ==
    { [A |-> "GPT", B |-> "Google", C |-> "Human"],
      [A |-> "Human", B |-> "Google", C |-> "GPT"],
      [A |-> "Google", B |-> "Human", C |-> "GPT"],
      [A |-> "GPT", B |-> "Google", C |-> "GPT"],
      [A |-> "GPT", B |-> "Google", C |-> "DeepL"],
      [A |-> "GPT", B |-> "Google"],
      [A |-> "GPT", B |-> "Google", D |-> "Human"] }

\* The (run, sentence) pairs the stored evaluations belong to.
StoredPairs == { <<1, 1>>, <<1, 2>>, <<2, 1>> }

\* Evaluation rows a store holds.
MaxStored == 2

StoredEvaluations ==
    UNION { [1..n -> [run_id : {1, 2}, sentence_id : {1, 2},
                      evaluation_json : { JsonDumps(R) : R \in StoredRecords },
                      mapping_json : { JsonDumps(m) : m \in StoredMaps }]] :
            n \in 0..MaxStored }

\* A store with two Runs, a sentence in each of two languages and the
\* evaluations evs.
StoreWith(evs) ==
    [sentences |-> << [language |-> "Finnish", original_text |-> "o1",
                       translation_human |-> "t1", translation_google |-> "t2"],
                      [language |-> "finnish", original_text |-> "o1",
                       translation_human |-> "t1", translation_google |-> "t2"] >>,
     runs |-> << [created_at |-> 1, provider |-> "openai", model |-> "gpt-4o",
                  seed |-> 42, config_hash |-> config_hash(NoConfig)],
                 [created_at |-> 2, provider |-> "gemini", model |-> "gemini-pro",
                  seed |-> 42, config_hash |-> config_hash(NoConfig)] >>,
     translations |-> <<>>,
     evaluations |-> evs,
     returned |-> {}, clock |-> 2, seeded |-> <<43, 44>>]

\* generate_tables is run on a store earlier invocations have left.
InitAggregate ==
    /\ \E evs \in StoredEvaluations :
          /\ \A i \in 1..Len(evs) : <<evs[i].run_id, evs[i].sentence_id>> \in StoredPairs
          /\ \E st \in {StoreWith(evs)} :
                /\ sentences = st.sentences /\ runs = st.runs
                /\ translations = st.translations /\ evaluations = st.evaluations
                /\ clock = st.clock /\ returned = st.returned
                /\ seeded = st.seeded
                /\ prior = [sentences |-> Len(st.sentences), runs |-> Len(st.runs),
                            translations |-> 0, evaluations |-> Len(st.evaluations)]
    /\ config = NoConfig /\ pc = "idle" /\ outcome = "returned"
    /\ model_idx = 0 /\ lang_idx = 0 /\ file_rows = 0 /\ rows = <<>> /\ row_idx = 0
    /\ run_id = 0 /\ rng = 0
    /\ translation_gpt = "" /\ labels = NoLabels /\ mapping = NoLabels
    /\ evaluation = NoValue
    /\ rows_read = 0 /\ log = <<>>
    /\ ptext = <<>> /\ presult = NoValue /\ lab = NoLab
    /\ scored = <<>> /\ table = NoTable

NextAggregate == Aggregate

SpecAggregate == InitAggregate /\ [][NextAggregate]_vars

\* ------------------------------------------------------------------ properties

Labels == {"A", "B", "C"}
Categories == {"GPT", "Google", "Human"}

\* m maps A, B and C onto the three category tags, each exactly once.
IsBijection(m) ==
    /\ DOMAIN m = Labels
    /\ {m.A, m.B, m.C} = Categories

\* C1: the provenance map stored with every Evaluation row run_pipeline has
\* written is a bijection between {A, B, C} and {GPT, Google, Human}.
C1_StoredProvenanceIsBijection ==
    \A i \in (prior.evaluations + 1)..Len(evaluations) :
        IsBijection(JsonValue(evaluations[i].mapping_json))

\* An Evaluation row written by this invocation whose map is not the
\* identity order.
C1_Witness ==
    \E i \in (prior.evaluations + 1)..Len(evaluations) :
        JsonValue(evaluations[i].mapping_json).A # "GPT"

\* C2: after prepare_blind_labels, for every label X the text labels[X] is
\* the text passed in for the category mapping[X], and the three labels carry
\* three different categories, whatever texts are equal.
C2_LabelsRecoverCategories ==
    lab.calls1 > 0 =>
        LET passed == [GPT |-> lab.in1[1], Google |-> lab.in1[2], Human |-> lab.in1[3]]
        IN  /\ IsBijection(lab.map1)
            /\ DOMAIN lab.labels1 = Labels
            /\ \A X \in Labels : lab.labels1[X] = passed[lab.map1[X]]

\* The three texts are equal and the shuffle has moved GPT to label C.
C2_Witness ==
    /\ lab.calls1 > 0
    /\ lab.in1[1] = lab.in1[2] /\ lab.in1[2] = lab.in1[3]
    /\ lab.map1.C = "GPT"

\* The scoring requests made so far.
ScoringCalls == { i \in 1..Len(log) : log[i].kind = "evaluate" }

\* C3: two scoring requests of one sentence that present the same texts under
\* A, B and C are identical whatever their provenance maps are, and no
\* provenance map reaches the store before its scoring response has come.
C3_ScoringNeverObservesProvenance ==
    /\ \A i, j \in ScoringCalls :
          ( /\ log[i].sentence_id = log[j].sentence_id
            /\ log[i].labels = log[j].labels
            /\ log[i].req.provider = log[j].req.provider
            /\ log[i].req.model = log[j].req.model )
          => log[i].req = log[j].req
    /\ Len(evaluations) - prior.evaluations
          <= Cardinality({ i \in ScoringCalls : log[i].status = "replied" })

\* Two scoring requests of one sentence with the same labels and different
\* provenance maps, both answered and both persisted.
C3_Witness ==
    /\ \E i, j \in ScoringCalls :
          /\ log[i].sentence_id = log[j].sentence_id
          /\ log[i].labels = log[j].labels
          /\ log[i].req.provider = log[j].req.provider
          /\ log[i].req.model = log[j].req.model
          /\ log[i].mapping # log[j].mapping
    /\ Len(evaluations) - prior.evaluations = 2

C5_AtMostOneRowPerPair ==
    /\ \A i, j \in 1..Len(translations) :
          ( /\ translations[i].run_id = translations[j].run_id
            /\ translations[i].sentence_id = translations[j].sentence_id ) => i = j
    /\ \A i, j \in 1..Len(evaluations) :
          ( /\ evaluations[i].run_id = evaluations[j].run_id
            /\ evaluations[i].sentence_id = evaluations[j].sentence_id ) => i = j

SameKey(r1, r2) ==
    r1.language = r2.language /\ r1.original_text = r2.original_text

\* C6: insert_sentence returns the same id whenever it is called with the
\* same (language, original_text), and no two Sentence rows share that key.
C6_InsertSentenceIdempotent ==
    /\ \A c1, c2 \in returned : SameKey(c1.row, c2.row) => c1.id = c2.id
    /\ \A i, j \in 1..Len(sentences) : SameKey(sentences[i], sentences[j]) => i = j

\* A key inserted by an earlier invocation is inserted again, with other
\* texts, after that invocation's Run, Translation and Evaluation rows.
C6_Witness ==
    /\ prior.runs > 0 /\ prior.evaluations > 0
    /\ \E c1, c2 \in returned : c1.row # c2.row /\ SameKey(c1.row, c2.row)

\* C7: a Sentence row, once inserted, keeps its id and its texts in every step
\* of the pipeline.
C7_SentenceRowsImmutable ==
    [][ \A i \in 1..Len(sentences) :
            i <= Len(sentences') /\ sentences'[i] = sentences[i] ]_vars

\* insert_sentence was called on a stored key with another human reference.
C7_Witness ==
    \E c \in returned :
        sentences[c.id].translation_human # c.row.translation_human

\* C8: Run rows are only appended, one when a model's processing begins, for
\* the model entry at hand; an invocation that returns has appended one per
\* entry of config["models"]; no step changes or removes a Run row.
C8_RunHistoryAppendOnly ==
    [][ LET begins == pc = "models" /\ pc' = "languages"
        IN  /\ \A i \in 1..Len(runs) : i <= Len(runs') /\ runs'[i] = runs[i]
            /\ Len(runs') = Len(runs) + (IF begins THEN 1 ELSE 0)
            /\ begins =>
                  /\ runs'[Len(runs')].provider = config.models[model_idx].provider
                  /\ runs'[Len(runs')].model = config.models[model_idx].name
                  /\ runs'[Len(runs')].seed = config.seed
                  /\ runs'[Len(runs')].config_hash = config_hash(config)
            /\ outcome' = "returned" =>
                  Len(runs') = prior.runs + Len(config.models) ]_vars

\* An invocation on a store that held a Run has returned after two models.
C8_Witness ==
    /\ outcome = "returned"
    /\ prior.runs = 1
    /\ Len(runs) = 3

\* C9: every scoring reply received ends in a persisted Translation and
\* Evaluation row (the sentinel when the reply does not parse): the replies
\* received are as many as the Evaluation rows written, plus the one being
\* written (or left unwritten when the process has ended between the inserts).
C9_EveryScoringReplyPersisted ==
    LET replied == { i \in ScoringCalls : log[i].status = "replied" }
        writing == IF pc \in {"insert_translation", "insert_evaluation"}
                      \/ outcome = "crashed"
                   THEN 1 ELSE 0
    IN  Cardinality(replied) = (Len(evaluations) - prior.evaluations) + writing

\* C10: parse_json_response returns a value (a parsed record or the error
\* sentinel) for every text; it never ends with an exception.
C10_ParseIsTotal ==
    presult # NoValue => presult.exc = "none"

\* C11: parse_json_response returns exactly R on the JSON text of a well-formed
\* record R inside code-fence markers, and on that text with prose before
\* and/or after it.
C11_WrappedRecordReturned ==
    \A R \in Records :
        (presult # NoValue /\ ptext \in WrappedTexts(R)) =>
            presult = [exc |-> "none", value |-> R]

\* C12: when a translation or scoring request fails at the gateway, the step
\* writes nothing to the store (the rows persisted before are all there,
\* unchanged), processing stops, and the Translation and Evaluation rows the
\* invocation has written are those of the sentences whose scoring reply had
\* come: none for the failing sentence, none for a later one, no sentinel.
C12_GatewayFailureAbortsPass ==
    [][ (log' # <<>> /\ log'[Len(log')].status = "failed") =>
            /\ store' = store
            /\ pc' = "idle" /\ outcome' = "GatewayError"
            /\ LET answered == { i \in 1..Len(log') : /\ log'[i].kind = "evaluate"
                                                       /\ log'[i].status = "replied" }
               IN  /\ Len(evaluations') - prior.evaluations = Cardinality(answered)
                   /\ Len(translations') - prior.translations = Cardinality(answered)
      ]_vars

\* The scoring request of a second sentence has failed after the rows of a
\* first one were written.
C12_Witness ==
    /\ outcome = "GatewayError"
    /\ log[Len(log)].kind = "evaluate" /\ log[Len(log)].status = "failed"
    /\ Len(evaluations) = prior.evaluations + 1
    /\ Len(translations) = prior.translations + 1

\* C13: an invocation that ends on a configuration error (no configuration
\* file, a key run_pipeline reads is absent, a seed file is missing) has
\* inserted no Run row and has made no gateway call.
C13_ConfigErrorBeforeAnyRun ==
    outcome \in {"SystemExit", "KeyError", "FileNotFoundError"} =>
        (Len(runs) = prior.runs /\ log = <<>>)

\* The key of a label's score in an evaluation record.
ScoreKey(l) ==
    CASE l = "A" -> "translation_A_score"
      [] l = "B" -> "translation_B_score"
      [] l = "C" -> "translation_C_score"

\* The keys of a well-formed evaluation record.
RecordKeys ==
    {"translation_A_description", "translation_A_score",
     "translation_B_description", "translation_B_score",
     "translation_C_description", "translation_C_score", "comparison"}

\* R is a well-formed evaluation record: the seven keys, each score a number
\* within [0.0, 1.0].
WellFormed(R) ==
    /\ DOMAIN R = RecordKeys
    /\ \A l \in Labels :
          /\ DOMAIN R[ScoreKey(l)] = {"tenths"}
          /\ R[ScoreKey(l)].tenths \in 0..10

\* C14: every stored Evaluation is read back by the aggregation, and for one
\* with a well-formed record parse_scores returns, for the category the
\* provenance map gives to a label, exactly the score the stored record gives
\* to that label.
C14_ScoreRoundTrip ==
    table.done =>
        /\ { scored[k].id : k \in 1..Len(scored) } = 1..Len(evaluations)
        /\ \A k \in 1..Len(scored) :
              LET e == evaluations[scored[k].id]
                  R == JsonValue(e.evaluation_json)
                  m == JsonValue(e.mapping_json)
              IN  WellFormed(R) =>
                      \A l \in Labels : scored[k].scores[m[l]] = R[ScoreKey(l)]

\* An Evaluation written by the invocation, with a well-formed record and GPT
\* under label C, has been read back.
C14_Witness ==
    /\ table.done
    /\ \E k \in 1..Len(scored) :
          /\ scored[k].id > prior.evaluations
          /\ WellFormed(JsonValue(evaluations[scored[k].id].evaluation_json))
          /\ JsonValue(evaluations[scored[k].id].mapping_json).C = "GPT"
          /\ scored[k].scores.GPT = Num(7)

\* The groups of the rows the aggregation has read, and the sum and the number
\* of the scores of a category in a group.
Groups == { scored[k].key : k \in 1..Len(scored) }
Having(key, cat) ==
    { k \in 1..Len(scored) : scored[k].key = key /\ scored[k].scores[cat] # None }
RECURSIVE Total(_, _)
Total(ks, cat) ==
    IF ks = {} THEN 0
    ELSE LET k == CHOOSE x \in ks : TRUE
         IN  Float(scored[k].scores[cat]) + Total(ks \ {k}, cat)

\* C15: for every (run, provider, model, language) group of evaluations the
\* table has a row; its bias is mean(self) - mean(reference) when the group
\* has self scores and reference scores, and None when it lacks either.
C15_BiasPerGroup ==
    table.done =>
        \A key \in Groups :
            \E row \in table.rows :
                /\ row.run_id = key.run_id /\ row.provider = key.provider
                /\ row.model = key.model /\ row.language = key.language
                /\ LET self == Having(key, "GPT")
                       ref == Having(key, "Human")
                       ns == Cardinality(self)
                       nr == Cardinality(ref)
                   IN  IF self # {} /\ ref # {}
                       THEN /\ row.bias_self_minus_human # None
                            /\ row.bias_self_minus_human.num * (ns * nr) =
                                  (Total(self, "GPT") * nr - Total(ref, "Human") * ns)
                                      * row.bias_self_minus_human.den
                       ELSE row.bias_self_minus_human = None

\* C16: an Evaluation whose stored provenance map is not a bijection between
\* {A, B, C} and {GPT, Google, Human} is rejected by the aggregation: none of
\* its scores is attributed to a category.
C16_NonBijectionRejected ==
    table.done =>
        \A k \in 1..Len(scored) :
            ~IsBijection(JsonValue(evaluations[scored[k].id].mapping_json)) =>
                \A cat \in Categories : scored[k].scores[cat] = None

\* The error sentinel of parse_json_response.
IsSentinel(R) == DOMAIN R = {"error", "raw"} /\ R.error = "json_parse_failed"

\* C17: the record stored with every Evaluation row run_pipeline has written
\* is the error sentinel or a well-formed evaluation record.
C17_StoredRecordWellFormed ==
    \A i \in (prior.evaluations + 1)..Len(evaluations) :
        LET R == JsonValue(evaluations[i].evaluation_json)
        IN  IsSentinel(R) \/ WellFormed(R)

\* C18: when run_pipeline has returned, every Run of the invocation has
\* exactly one Translation row and exactly one Evaluation row for every
\* sentence the invocation has inserted from the seed file of a configured
\* language.
C18_EveryTripleCovered ==
    outcome = "returned" =>
        \A r \in (prior.runs + 1)..Len(runs) :
            \A c \in { x \in returned : ~x.earlier } :
                /\ Cardinality({ i \in 1..Len(translations) :
                                   /\ translations[i].run_id = r
                                   /\ translations[i].sentence_id = c.id }) = 1
                /\ Cardinality({ i \in 1..Len(evaluations) :
                                   /\ evaluations[i].run_id = r
                                   /\ evaluations[i].sentence_id = c.id }) = 1

\* C19: no two Runs of the store were given the same seed for their
\* randomness sources.
C19_RunSeedsDiffer ==
    \A i, j \in 1..Len(seeded) : i # j => seeded[i] # seeded[j]

\* The last call on the gateway is a call of the given kind for the sentence
\* at hand, and its reply has come.
Answered(kind) ==
    /\ log # <<>>
    /\ log[Len(log)].kind = kind
    /\ log[Len(log)].status = "replied"
    /\ log[Len(log)].run_id = run_id
    /\ log[Len(log)].sentence_id = rows[row_idx].id

\* C20: for each sentence of a pass the steps come in the order translation
\* request, translation reply, labeling, scoring request, scoring reply and
\* parse, insert of the Translation row, insert of the Evaluation row: a
\* request is sent, labels are drawn and a row is written only when the step
\* before it, for the same sentence, is done.
C20_ProtocolOrder ==
    [][ LET sent(kind) ==
                /\ Len(log') = Len(log) + 1
                /\ log'[Len(log')].kind = kind
            drawn == rng' # rng /\ pc' # "idle" /\ pc # "models"
            wroteT == translations' # translations
            wroteE == evaluations' # evaluations
        IN  /\ sent("translate") =>
                  /\ \A i \in 1..Len(log) : log[i].status = "replied"
                  /\ Len(translations) - prior.translations
                         = Len(evaluations) - prior.evaluations
                  /\ 2 * (Len(evaluations) - prior.evaluations) = Len(log)
            /\ drawn => Answered("translate") /\ translation_gpt = translation_gpt'
            /\ sent("evaluate") =>
                  /\ Answered("translate")
                  /\ pc = "labeled"
                  /\ log'[Len(log')].labels = labels
                  /\ log'[Len(log')].sentence_id = rows[row_idx].id
            /\ wroteT =>
                  /\ Answered("evaluate")
                  /\ evaluation # NoValue
                  /\ translations' = Append(translations,
                         [run_id |-> run_id, sentence_id |-> rows[row_idx].id,
                          translation_gpt |-> translation_gpt])
                  /\ Len(translations) - prior.translations
                         = Len(evaluations) - prior.evaluations
            /\ wroteE =>
                  /\ Answered("evaluate")
                  /\ Len(evaluations') = Len(evaluations) + 1
                  /\ evaluations'[Len(evaluations')].sentence_id = rows[row_idx].id
                  /\ translations # <<>>
                  /\ translations[Len(translations)].sentence_id = rows[row_idx].id
                  /\ translations[Len(translations)].run_id = run_id
                  /\ Len(translations) - prior.translations
                         = Len(evaluations') - prior.evaluations
      ]_vars

\* The protocol has been gone through for two sentences.
C20_Witness ==
    /\ Len(evaluations) = prior.evaluations + 2
    /\ Len(translations) = prior.translations + 2
    /\ Len(log) = 4

\* The state of a randomness source k shuffles after the state s.
RECURSIVE AfterShuffles(_, _)
AfterShuffles(s, k) ==
    IF k = 0 THEN s ELSE Shuffle(AfterShuffles(s, k - 1), <<1, 2, 3>>).rng

\* The provenance map of the k-th permutation of the sequence of seed sd.
NthMapping(sd, k) ==
    prepare_blind_labels(AfterShuffles(Random(sd), k - 1), "t1", "t2", "t3").mapping

\* The translation requests of run rid that have returned, in order.
ReturnedOf(rid) ==
    SelectSeq(log, LAMBDA e : e.kind = "translate" /\ e.run_id = rid
                               /\ e.status = "replied")

\* The scoring requests of run rid, in order.
ScoredOf(rid) == SelectSeq(log, LAMBDA e : e.kind = "evaluate" /\ e.run_id = rid)

\* C21: each Run has one randomness source of its own: it is created in the
\* step that inserts the Run row, seeded with the configured seed plus the run
\* id; afterwards it changes only by one shuffle per labeling, so that it is
\* the seed's state after as many shuffles as translation requests of the Run
\* have returned (a new language does not reseed it), and the k-th labeled
\* sentence of a Run carries the k-th permutation of the Run's own seed.
C21_OneSourcePerRun ==
    [][ /\ runs' # runs =>
              /\ Len(runs') = Len(runs) + 1
              /\ run_id' = Len(runs')
              /\ rng' = Random(config.seed + run_id')
              /\ seeded' = Append(seeded, config.seed + run_id')
        /\ (rng' # rng /\ runs' = runs /\ pc' # "idle") =>
              /\ pc = "label" /\ pc' = "labeled"
              /\ rng' = Shuffle(rng, <<1, 2, 3>>).rng
        /\ (run_id' # 0) =>
              LET k == Len(ReturnedOf(run_id)') - (IF pc' = "label" THEN 1 ELSE 0)
              IN  /\ run_id' = Len(runs')
                  /\ seeded'[run_id'] = config'.seed + run_id'
                  /\ rng' = AfterShuffles(Random(seeded'[run_id']), k)
        /\ \A rid \in 1..Len(runs') :
              \A k \in 1..Len(ScoredOf(rid)') :
                  ScoredOf(rid)'[k].mapping = NthMapping(seeded'[rid], k)
      ]_vars

\* The second sentence of a Run has been labeled in the second language of the
\* Run, with the source advanced twice from the Run's seed.
C21_Witness ==
    /\ run_id # 0
    /\ lang_idx = 2
    /\ pc = "labeled"
    /\ Len(ReturnedOf(run_id)) = 2
    /\ rng = AfterShuffles(Random(config.seed + run_id), 2)
    /\ rng # Random(config.seed + run_id)
    /\ mapping = NthMapping(config.seed + run_id, 2)

\* The translation requests of the invocation, as places of the log.
TranslationCalls == { i \in 1..Len(log) : log[i].kind = "translate" }

\* C22: at most one gateway request is outstanding at any moment, and it is
\* the last one issued; and when a translation request has been issued, the
\* Translation row and the Evaluation row of every sentence requested before
\* it (same language, earlier language or earlier model) are in the store, in
\* the order of the requests.
C22_StrictlySequential ==
    /\ \A i \in 1..Len(log) : log[i].status = "pending" => i = Len(log)
    /\ \A i, j \in TranslationCalls :
          i < j =>
             LET n == Cardinality({ h \in TranslationCalls : h <= i })
                 t == prior.translations + n
                 e == prior.evaluations + n
             IN  /\ t <= Len(translations)
                 /\ e <= Len(evaluations)
                 /\ translations[t].run_id = log[i].run_id
                 /\ translations[t].sentence_id = log[i].sentence_id
                 /\ evaluations[e].run_id = log[i].run_id
                 /\ evaluations[e].sentence_id = log[i].sentence_id

\* The translation request of the first sentence of the second model is
\* outstanding, after the sentence of the first model.
C22_Witness ==
    /\ Len(log) = 3
    /\ log[3].kind = "translate"
    /\ log[3].status = "pending"
    /\ log[3].run_id # log[1].run_id
    /\ Len(evaluations) = prior.evaluations + 1

\* C23: no (run, sentence) has two translation requests or two scoring
\* requests, a failed gateway call is the last call of the invocation, and at
\* the end of a pass over n sentences the last 2n calls are the translation
\* and scoring requests of its sentences, one each, and no others were made.
C23_NoRetry ==
    [][ /\ \A i, j \in 1..Len(log') :
              ( /\ log'[i].kind = log'[j].kind
                /\ log'[i].run_id = log'[j].run_id
                /\ log'[i].sentence_id = log'[j].sentence_id ) => i = j
        /\ \A i \in 1..Len(log') :
              log'[i].status = "failed" => i = Len(log') /\ pc' = "idle"
        /\ (pc = "rows" /\ pc' = "languages") =>
              LET n == Len(rows)
                  base == Len(log) - 2 * n
              IN  /\ base >= 0
                  /\ Len(log) = 2 * (Len(evaluations) - prior.evaluations)
                  /\ \A k \in 1..n :
                        /\ log[base + 2 * k - 1].kind = "translate"
                        /\ log[base + 2 * k].kind = "evaluate"
                        /\ \A h \in {base + 2 * k - 1, base + 2 * k} :
                              /\ log[h].run_id = run_id
                              /\ log[h].sentence_id = rows[k].id
                              /\ log[h].status = "replied"
      ]_vars

\* C24: within an invocation an insert_sentence call is made, and a Sentence
\* row written, only while load_seed_data runs and no Run row of the
\* invocation exists; load_seed_data is left for the loop over the models
\* only when all configured languages have been gone through; and a Run row
\* is inserted only after that, with the Sentence rows left alone from then on.
C24_SeedDataPrecedesRuns ==
    [][ /\ (rows_read' # rows_read \/ sentences' # sentences) =>
              /\ pc = "load" /\ pc' = "load"
              /\ Len(runs) = prior.runs
              /\ runs' = runs
        /\ (pc = "load" /\ pc' \notin {"load", "idle"}) =>
              /\ pc' = "models"
              /\ lang_idx > Len(config.languages)
        /\ runs' # runs => pc = "models" /\ sentences' = sentences
        /\ Len(runs') > prior.runs => pc' # "load"
      ]_vars

\* Two Sentence rows have been inserted for two configured languages, and the
\* Run row of the invocation exists.
C24_Witness ==
    /\ Len(config.languages) = 2
    /\ rows_read = 2
    /\ Len(sentences) = prior.sentences + 2
    /\ Len(runs) = prior.runs + 1

\* The rows of a table for run rid and sentence sid.
RowsOf(tbl, rid, sid) ==
    { i \in 1..Len(tbl) : tbl[i].run_id = rid /\ tbl[i].sentence_id = sid }

\* The (run, sentence) pairs of the Translation and Evaluation rows.
StoredPairsOf(tbl) == { <<tbl[i].run_id, tbl[i].sentence_id>> : i \in 1..Len(tbl) }

\* C25: every Evaluation row has a Translation row of the same (run,
\* sentence); for every (run, sentence) there are as many Translation rows as
\* Evaluation rows or one more; and one more only for the sentence whose
\* Translation row is the last one written and whose insert_evaluation has
\* not been made: the invocation stands between the two inserts or has ended
\* there.
C25_TranslationEvaluationPairing ==
    /\ StoredPairsOf(evaluations) \subseteq StoredPairsOf(translations)
    /\ \A p \in StoredPairsOf(translations) :
          LET d == Cardinality(RowsOf(translations, p[1], p[2]))
                       - Cardinality(RowsOf(evaluations, p[1], p[2]))
          IN  /\ d \in {0, 1}
              /\ d = 1 =>
                    /\ translations[Len(translations)].run_id = p[1]
                    /\ translations[Len(translations)].sentence_id = p[2]
                    /\ \/ /\ pc = "insert_evaluation"
                          /\ run_id = p[1]
                          /\ rows[row_idx].id = p[2]
                       \/ pc = "idle" /\ outcome = "crashed"

\* The invocation has ended between the two inserts of its second sentence:
\* one complete pair and one Translation row without Evaluation row.
C25_Witness ==
    /\ pc = "idle"
    /\ outcome = "crashed"
    /\ Len(evaluations) = prior.evaluations + 1
    /\ Len(translations) = prior.translations + 2

\* C26: two randomness sources created in the same state and given the same
\* number of prepare_blind_labels calls, whatever texts each call is given,
\* yield equal provenance maps and end in the same state; the map of the k-th
\* call is the k-th permutation of the seed and the state is the seed's state
\* after k shuffles.
C26_LabelsIndependentOfTexts ==
    lab.calls1 = lab.calls2 =>
        /\ lab.map1 = lab.map2
        /\ lab.rng1 = lab.rng2
        /\ lab.rng1 = AfterShuffles(Random(lab.seed), lab.calls1)
        /\ lab.calls1 > 0 => lab.map1 = NthMapping(lab.seed, lab.calls1)

\* Both sources have answered two calls, the second with different texts, and
\* the texts of the first source's second call are not all different.
C26_Witness ==
    /\ lab.calls1 = 2 /\ lab.calls2 = 2
    /\ lab.differ
    /\ lab.in1[1] = lab.in1[3]
    /\ lab.map1 = lab.map2
    /\ lab.map1.A # "GPT"

\* C27: the step in which a gateway call fails ends the invocation: the
\* store is left as it is, with one Run row of the invocation for each model
\* up to the failing one and none for a later one, the last Run row being
\* that of the failing model, and with the Translation and Evaluation rows,
\* in pairs, of exactly the sentences whose scoring response had come; and
\* from then on no request is made and no row written.
C27_GatewayFailureEndsInvocation ==
    [][ /\ (log' # <<>> /\ log'[Len(log')].status = "failed" /\ log' # log) =>
              LET done == SelectSeq(log, LAMBDA e : e.kind = "evaluate"
                                                     /\ e.status = "replied")
                  m == config.models[model_idx]
              IN  /\ pc' = "idle" /\ outcome' = "GatewayError"
                  /\ store' = store
                  /\ Len(runs) - prior.runs = model_idx
                  /\ run_id = Len(runs)
                  /\ runs[run_id].provider = m.provider
                  /\ runs[run_id].model = m.name
                  /\ log'[Len(log')].run_id = run_id
                  /\ Len(translations) = prior.translations + Len(done)
                  /\ Len(evaluations) = prior.evaluations + Len(done)
                  /\ \A k \in 1..Len(done) :
                        LET t == translations[prior.translations + k]
                            e == evaluations[prior.evaluations + k]
                        IN  /\ t.run_id = done[k].run_id
                            /\ t.sentence_id = done[k].sentence_id
                            /\ e.run_id = done[k].run_id
                            /\ e.sentence_id = done[k].sentence_id
        /\ outcome = "GatewayError" =>
              /\ store' = store /\ log' = log
              /\ pc' = "idle" /\ outcome' = outcome
      ]_vars

\* The first of two configured models has failed on its second sentence: its
\* Run row and the pair of its first sentence are in the store, and no Run
\* row of the second model.
C27_Witness ==
    /\ outcome = "GatewayError"
    /\ Len(config.models) = 2
    /\ Len(runs) = prior.runs + 1
    /\ Len(log) = 3
    /\ Len(translations) = prior.translations + 1
    /\ Len(evaluations) = prior.evaluations + 1
    /\ table.done

\* C28: no request is made for a model whose provider is neither openai nor
\* gemini, and no Translation or Evaluation row is written for its Run; the
\* invocation ends with ValueError at the first row of the first pass of that
\* model that has a row, the Run row of the model being in the store and a
\* stored sentence matching the capitalized language of the pass; the step
\* leaves store and log alone.
C28_UnknownProviderRejected ==
    [][ /\ \A i \in 1..Len(log') : log'[i].req.provider \in {"openai", "gemini"}
        /\ \A r \in (prior.runs + 1)..Len(runs') :
              runs'[r].provider \notin {"openai", "gemini"} =>
                  /\ \A i \in 1..Len(translations') : translations'[i].run_id # r
                  /\ \A i \in 1..Len(evaluations') : evaluations'[i].run_id # r
        /\ (outcome' = "ValueError" /\ outcome # "ValueError") =>
              /\ store' = store /\ log' = log
              /\ pc = "rows" /\ pc' = "idle"
              /\ config.models[model_idx].provider \notin {"openai", "gemini"}
              /\ run_id = Len(runs) /\ run_id > prior.runs
              /\ runs[run_id].provider = config.models[model_idx].provider
              /\ \A i \in 1..Len(log) : log[i].run_id # run_id
              /\ row_idx = 1 /\ rows # <<>>
              /\ \E i \in 1..Len(sentences) :
                    /\ sentences[i].language = Capitalize(config.languages[lang_idx])
                    /\ rows[1].id = i
        /\ (pc = "rows" /\ row_idx <= Len(rows)
              /\ config.models[model_idx].provider \notin {"openai", "gemini"}) =>
              outcome' \in {"ValueError", outcome}
      ]_vars

\* The second configured model, of an unknown provider, has been rejected
\* after the first model has processed a sentence: two Run rows, one pair.
C28_Witness ==
    /\ outcome = "ValueError"
    /\ Len(runs) = prior.runs + 2
    /\ runs[Len(runs)].provider = "azure"
    /\ Len(log) = 2
    /\ Len(translations) = prior.translations + 1
    /\ Len(evaluations) = prior.evaluations + 1

\* The ids of the Sentence rows of a language, ascending.
RECURSIVE IdsOf(_, _, _)
IdsOf(tbl, language, from) ==
    IF from > Len(tbl) THEN <<>>
    ELSE (IF tbl[from].language = language THEN <<from>> ELSE <<>>)
             \o IdsOf(tbl, language, from + 1)

\* C29: when a pass starts, the rows it will process are read: they are the
\* Sentence rows of the store, those of earlier invocations included, whose
\* language is the capitalized configured identifier, in ascending id; they
\* are not read again during the pass; the translation requests of the pass
\* go through them one by one from the first, for the language and the Run of
\* the pass, and the pass ends after the last; languages are taken in
\* configured order for each model, models in configured order, each model's
\* Run row getting the next run id.
C29_PassProcessesSelectedRows ==
    [][ /\ (pc = "languages" /\ pc' = "rows") =>
              /\ Len(rows') = Len(IdsOf(sentences, Capitalize(config.languages[lang_idx]), 1))
              /\ \A k \in 1..Len(rows') :
                    LET i == IdsOf(sentences, Capitalize(config.languages[lang_idx]), 1)[k]
                    IN  /\ rows'[k].id = i
                        /\ rows'[k].original_text = sentences[i].original_text
                        /\ rows'[k].translation_human = sentences[i].translation_human
                        /\ rows'[k].translation_google = sentences[i].translation_google
              /\ row_idx' = 1 /\ lang_idx' = lang_idx
        /\ rows' # rows => (pc = "languages" /\ pc' = "rows") \/ pc' = "idle"
        /\ (Len(log') = Len(log) + 1 /\ log'[Len(log')].kind = "translate") =>
              /\ pc = "rows" /\ row_idx \in 1..Len(rows)
              /\ log'[Len(log')].sentence_id = rows[row_idx].id
              /\ log'[Len(log')].run_id = run_id
              /\ log'[Len(log')].req.user_prompt.target
                     = Capitalize(config.languages[lang_idx])
              /\ log'[Len(log')].req.user_prompt.original = rows[row_idx].original_text
              /\ \A i \in 1..Len(log) :
                    (log[i].run_id = run_id /\ log[i].sentence_id >= rows[row_idx].id)
                        => \E h \in 1..(lang_idx - 1) :
                              Capitalize(config.languages[h])
                                  = Capitalize(config.languages[lang_idx])
        /\ (row_idx' # row_idx /\ pc' # "idle") =>
              \/ pc = "languages" /\ row_idx' = 1
              \/ pc = "insert_evaluation" /\ row_idx' = row_idx + 1
        /\ (pc = "rows" /\ pc' = "languages") =>
              /\ row_idx = Len(rows) + 1
              /\ lang_idx' = lang_idx + 1
        /\ (pc = "languages" /\ pc' = "models") =>
              /\ lang_idx = Len(config.languages) + 1
              /\ model_idx' = model_idx + 1
        /\ runs' # runs =>
              /\ lang_idx' = 1
              /\ Len(runs') = prior.runs + model_idx
              /\ runs'[Len(runs')].provider = config.models[model_idx].provider
              /\ runs'[Len(runs')].model = config.models[model_idx].name
              /\ run_id' = Len(runs')
              /\ run_id' > run_id
      ]_vars

\* A pass over a sentence of an earlier invocation and a sentence inserted by
\* this one has come to its second row.
C29_Witness ==
    /\ prior.sentences = 1
    /\ Len(sentences) = 2
    /\ Len(rows) = 2
    /\ rows[1].id = 1 /\ rows[2].id = 2
    /\ Len(log) = 3
    /\ log[3].sentence_id = 2
    /\ config.languages[lang_idx] = "finnish"

\* The column of the table that reports the average of a category.
Column(cat) ==
    CASE cat = "GPT" -> "gpt_self_score"
      [] cat = "Google" -> "google_score"
      [] cat = "Human" -> "human_score"

\* C30: a label whose score the stored record lacks gives no value to the
\* category the map gives that label (a value the category has comes from
\* another label mapped to it); the average the table reports for a category
\* of a group is the sum of the scores contributed over their number, and None
\* when none was contributed, never a zero standing for it; and the table has
\* a row for a group exactly when an Evaluation of the group contributed a
\* score, one row at most.
C30_AbsentScoresNotAveraged ==
    table.done =>
        /\ \A k \in 1..Len(scored) :
              LET R == JsonValue(evaluations[scored[k].id].evaluation_json)
                  m == JsonValue(evaluations[scored[k].id].mapping_json)
              IN  \A l \in Labels \cap DOMAIN m :
                      (ScoreKey(l) \notin DOMAIN R /\ m[l] \in Categories) =>
                          \/ scored[k].scores[m[l]] = None
                          \/ \E o \in (Labels \cap DOMAIN m) \ {l} :
                                /\ m[o] = m[l]
                                /\ ScoreKey(o) \in DOMAIN R
                                /\ scored[k].scores[m[l]] = R[ScoreKey(o)]
        /\ \A row \in table.rows :
              LET key == [run_id |-> row.run_id, provider |-> row.provider,
                          model |-> row.model, language |-> row.language]
              IN  /\ key \in Groups
                  /\ \E cat \in Categories : Having(key, cat) # {}
                  /\ \A cat \in Categories :
                        LET ks == Having(key, cat)
                        IN  row[Column(cat)] =
                                IF ks = {} THEN None
                                ELSE [num |-> Total(ks, cat), den |-> Cardinality(ks)]
        /\ \A key \in Groups :
              Cardinality({ row \in table.rows :
                              /\ row.run_id = key.run_id /\ row.provider = key.provider
                              /\ row.model = key.model /\ row.language = key.language })
                  = IF \E cat \in Categories : Having(key, cat) # {} THEN 1 ELSE 0

\* A group of a complete and an incomplete record: the category under label B
\* is averaged over one score, a genuine 0.0, the others over two.
C30_Witness ==
    /\ table.done
    /\ Len(evaluations) = 2
    /\ JsonValue(evaluations[1].evaluation_json) = PartialRecord
    /\ JsonValue(evaluations[2].evaluation_json) = LowRecord
    /\ JsonValue(evaluations[1].mapping_json) = [A |-> "GPT", B |-> "Google", C |-> "Human"]
    /\ JsonValue(evaluations[2].mapping_json) = [A |-> "GPT", B |-> "Google", C |-> "Human"]
    /\ \E row \in table.rows :
          /\ row.google_score = [num |-> 0, den |-> 1]
          /\ row.gpt_self_score = [num |-> 9, den |-> 2]
          /\ row.human_score.den = 2

====
